---- MODULE Spec2Model ----
(***************************************************************************)
(* ISEEC calculator (app.py): the scoring functions and the calculation    *)
(* run of page_calculator.                                                 *)
(*                                                                         *)
(* Numbers.  The program computes in Python floats.  Here a score is an    *)
(* integer count of 1/SCALE points (100 points = 100 * SCALE), quotients   *)
(* are taken to the unit below, and the coefficients 0.6, 0.4, 1.10, 1.05, *)
(* 0.05, 0.10 are hundredths applied by Pct.  float('inf') is INF, an      *)
(* integer above every finite value.  A division by zero, which raises     *)
(* ZeroDivisionError in Python, yields the value ERR, and every operation  *)
(* that receives ERR yields ERR, as a propagating exception does.          *)
(* Strings of the program that are not ASCII are given ASCII names.        *)
(***************************************************************************)
EXTENDS Integers, Sequences, FiniteSets, TLC

VARIABLES
    session_state,    \* st.session_state: a record from keys to values
    pc,               \* position of the script run of page_calculator
    loc,              \* the local variables of the running script
    call              \* the last direct call of a scoring function

vars == <<session_state, pc, loc, call>>

\* Units per point of score.
SCALE == 10000

\* Python's None where a number is expected, and where a text is expected.
None == -2147483646

NoneStr == "None"

\* float('inf')
INF == 2147483647

\* The outcome of an operation that raised ZeroDivisionError.
ERR == -2147483647

(***************************************************************************)
(* Arithmetic                                                              *)
(***************************************************************************)

Max(a, b) == IF a >= b THEN a ELSE b

Min(a, b) == IF a <= b THEN a ELSE b

\* a / b, to the unit below; ERR when b = 0.
Quot(a, b) ==
    IF a = ERR \/ b = ERR THEN ERR
    ELSE IF b = 0 THEN ERR
    ELSE IF b > 0 THEN a \div b
    ELSE (-a) \div (-b)

\* a * m / b for b > 0, by long division so that no product leaves 32 bits;
\* ERR when b = 0.
MulDiv(a, m, b) ==
    IF a = ERR \/ b = ERR THEN ERR
    ELSE IF b = 0 THEN ERR
    ELSE LET sb == IF b > 0 THEN b ELSE -b
             sa == IF b > 0 THEN a ELSE -a
             q  == sa \div sb
             r  == sa % sb
         IN  q * m + (r * m) \div sb

\* x * p / 100: multiplication by a coefficient given in hundredths.
Pct(x, p) == IF x = ERR \/ p = ERR THEN ERR ELSE (x * p) \div 100

RECURSIVE SqrtIter(_, _, _)
SqrtIter(x, lo, hi) ==
    IF lo >= hi THEN lo
    ELSE LET mid == (lo + hi + 1) \div 2
         IN  IF mid * mid <= x THEN SqrtIter(x, mid, hi)
             ELSE SqrtIter(x, lo, mid - 1)

\* The integer square root of x >= 0.
ISqrt(x) == SqrtIter(x, 0, 46340)

RECURSIVE SumSeq(_)
SumSeq(s) == IF s = <<>> THEN 0 ELSE Head(s) + SumSeq(Tail(s))

(***************************************************************************)
(* Reference data                                                          *)
(***************************************************************************)

\* The keys of INDUSTRY_DATA, in the order of the dictionary.
IndustryList ==
    << "Energy", "Nuclear", "Banks", "Defence", "TelecomIT", "Retail",
       "Construction", "Metallurgy", "Transport", "Chemical", "Machinery",
       "Pharma", "Agro", "Tobacco", "Alcohol", "Other" >>

IndustryNames == { IndustryList[i] : i \in 1..Len(IndustryList) }

\* INDUSTRY_DATA with the k_risk of the last entry entered as 0.10.
INDUSTRY_DATA_other_discounted ==
    [ n \in IndustryNames |->
        CASE n = "Energy"       -> [x_ref |-> 60000, k_risk |-> 110, category |-> "high",
                                    okved_prefixes |-> << <<"0", "6">>, <<"0", "9", ".", "1">>, <<"3", "5">> >>]
          [] n = "Nuclear"      -> [x_ref |-> 60000, k_risk |-> 110, category |-> "high",
                                    okved_prefixes |-> << <<"2", "4", ".", "4", "6">> >>]
          [] n = "Banks"        -> [x_ref |-> 55000, k_risk |-> 100, category |-> "high",
                                    okved_prefixes |-> << <<"6", "4">>, <<"6", "5">>, <<"6", "6">> >>]
          [] n = "Defence"      -> [x_ref |-> 45000, k_risk |-> 110, category |-> "high",
                                    okved_prefixes |-> << <<"2", "5", ".", "4">>, <<"3", "0", ".", "1", "1">>, <<"3", "0", ".", "3">> >>]
          [] n = "TelecomIT"    -> [x_ref |-> 45000, k_risk |-> 100, category |-> "medium",
                                    okved_prefixes |-> << <<"6", "1">>, <<"6", "2">>, <<"6", "3">> >>]
          [] n = "Retail"       -> [x_ref |-> 40000, k_risk |-> 100, category |-> "medium",
                                    okved_prefixes |-> << <<"4", "7">> >>]
          [] n = "Construction" -> [x_ref |-> 35000, k_risk |-> 100, category |-> "medium",
                                    okved_prefixes |-> << <<"4", "1">>, <<"4", "2">>, <<"4", "3">> >>]
          [] n = "Metallurgy"   -> [x_ref |-> 35000, k_risk |-> 110, category |-> "medium",
                                    okved_prefixes |-> << <<"0", "7">>, <<"0", "8">>, <<"2", "4">> >>]
          [] n = "Transport"    -> [x_ref |-> 30000, k_risk |-> 100, category |-> "medium",
                                    okved_prefixes |-> << <<"4", "9">>, <<"5", "0">>, <<"5", "1">>, <<"5", "2">> >>]
          [] n = "Chemical"     -> [x_ref |-> 25000, k_risk |-> 110, category |-> "medium",
                                    okved_prefixes |-> << <<"2", "0">>, <<"2", "1">> >>]
          [] n = "Machinery"    -> [x_ref |-> 25000, k_risk |-> 100, category |-> "medium",
                                    okved_prefixes |-> << <<"2", "8">>, <<"2", "9">> >>]
          [] n = "Pharma"       -> [x_ref |-> 25000, k_risk |-> 100, category |-> "medium",
                                    okved_prefixes |-> << <<"2", "1">>, <<"8", "6">> >>]
          [] n = "Agro"         -> [x_ref |-> 20000, k_risk |-> 100, category |-> "low",
                                    okved_prefixes |-> << <<"0", "1">>, <<"1", "0">>, <<"1", "1">> >>]
          [] n = "Tobacco"      -> [x_ref |-> 15000, k_risk |-> 110, category |-> "low",
                                    okved_prefixes |-> << <<"1", "2">> >>]
          [] n = "Alcohol"      -> [x_ref |-> 15000, k_risk |-> 110, category |-> "low",
                                    okved_prefixes |-> << <<"1", "1", ".", "0">> >>]
          [] n = "Other"        -> [x_ref |-> 20000, k_risk |-> 10, category |-> "low",
                                    okved_prefixes |-> << >>] ]

\* x_ref in MediaIndex units, k_risk in hundredths; an OKVED prefix is the
\* sequence of its characters.
INDUSTRY_DATA ==
    [ n \in IndustryNames |->
        CASE n = "Energy"       -> [x_ref |-> 60000, k_risk |-> 110, category |-> "high",
                                    okved_prefixes |-> << <<"0", "6">>, <<"0", "9", ".", "1">>, <<"3", "5">> >>]
          [] n = "Nuclear"      -> [x_ref |-> 60000, k_risk |-> 110, category |-> "high",
                                    okved_prefixes |-> << <<"2", "4", ".", "4", "6">> >>]
          [] n = "Banks"        -> [x_ref |-> 55000, k_risk |-> 100, category |-> "high",
                                    okved_prefixes |-> << <<"6", "4">>, <<"6", "5">>, <<"6", "6">> >>]
          [] n = "Defence"      -> [x_ref |-> 45000, k_risk |-> 110, category |-> "high",
                                    okved_prefixes |-> << <<"2", "5", ".", "4">>, <<"3", "0", ".", "1", "1">>, <<"3", "0", ".", "3">> >>]
          [] n = "TelecomIT"    -> [x_ref |-> 45000, k_risk |-> 100, category |-> "medium",
                                    okved_prefixes |-> << <<"6", "1">>, <<"6", "2">>, <<"6", "3">> >>]
          [] n = "Retail"       -> [x_ref |-> 40000, k_risk |-> 100, category |-> "medium",
                                    okved_prefixes |-> << <<"4", "7">> >>]
          [] n = "Construction" -> [x_ref |-> 35000, k_risk |-> 100, category |-> "medium",
                                    okved_prefixes |-> << <<"4", "1">>, <<"4", "2">>, <<"4", "3">> >>]
          [] n = "Metallurgy"   -> [x_ref |-> 35000, k_risk |-> 110, category |-> "medium",
                                    okved_prefixes |-> << <<"0", "7">>, <<"0", "8">>, <<"2", "4">> >>]
          [] n = "Transport"    -> [x_ref |-> 30000, k_risk |-> 100, category |-> "medium",
                                    okved_prefixes |-> << <<"4", "9">>, <<"5", "0">>, <<"5", "1">>, <<"5", "2">> >>]
          [] n = "Chemical"     -> [x_ref |-> 25000, k_risk |-> 110, category |-> "medium",
                                    okved_prefixes |-> << <<"2", "0">>, <<"2", "1">> >>]
          [] n = "Machinery"    -> [x_ref |-> 25000, k_risk |-> 100, category |-> "medium",
                                    okved_prefixes |-> << <<"2", "8">>, <<"2", "9">> >>]
          [] n = "Pharma"       -> [x_ref |-> 25000, k_risk |-> 100, category |-> "medium",
                                    okved_prefixes |-> << <<"2", "1">>, <<"8", "6">> >>]
          [] n = "Agro"         -> [x_ref |-> 20000, k_risk |-> 100, category |-> "low",
                                    okved_prefixes |-> << <<"0", "1">>, <<"1", "0">>, <<"1", "1">> >>]
          [] n = "Tobacco"      -> [x_ref |-> 15000, k_risk |-> 110, category |-> "low",
                                    okved_prefixes |-> << <<"1", "2">> >>]
          [] n = "Alcohol"      -> [x_ref |-> 15000, k_risk |-> 110, category |-> "low",
                                    okved_prefixes |-> << <<"1", "1", ".", "0">> >>]
          [] n = "Other"        -> [x_ref |-> 20000, k_risk |-> 100, category |-> "low",
                                    okved_prefixes |-> << >>] ]

\* The ten transparency criteria, by position.
TRANSP_CRITERIA ==
    << "annual_report", "external_audit", "esg_report", "intl_standards",
       "ownership", "governing_bodies", "top_pay", "material_facts",
       "contacts", "english_version" >>

\* The thirteen institutional criteria with their points.
INST_CRITERIA ==
    << <<"comm_unit", 10>>, <<"head_in_top_mgmt", 10>>, <<"news_and_press", 10>>,
       <<"news_4_per_month", 10>>, <<"vk", 5>>, <<"telegram", 5>>,
       <<"public_strategy", 10>>, <<"feedback", 10>>, <<"crisis_procedures", 10>>,
       <<"association", 10>>, <<"awards", 10>>, <<"kpi_linked", 10>>,
       <<"reputation_monitoring", 10>> >>

\* What a subscript of a dictionary raises on a key it does not hold.
KeyError == [raised |-> "KeyError"]

\* INDUSTRY_DATA[industry]: the profile of a key, KeyError otherwise.
INDUSTRY_DATA_getitem(industry) ==
    IF industry \in DOMAIN INDUSTRY_DATA THEN INDUSTRY_DATA[industry] ELSE KeyError

\* str.startswith on sequences of characters.
startswith(s, prefix) ==
    Len(prefix) <= Len(s) /\ SubSeq(s, 1, Len(prefix)) = prefix

\* The first industry, in the order of the dictionary, one of whose prefixes
\* begins the code; the last key when the code is empty or none does.
determine_industry_by_okved(okved) ==
    IF okved = << >> THEN "Other"
    ELSE LET prefixes(i) == INDUSTRY_DATA[IndustryList[i]].okved_prefixes
             hits == { i \in 1..Len(IndustryList) :
                          \E k \in 1..Len(prefixes(i)) : startswith(okved, prefixes(i)[k]) }
         IN  IF hits = {} THEN "Other"
             ELSE IndustryList[CHOOSE i \in hits : \A j \in hits : i <= j]

(***************************************************************************)
(* Scoring functions                                                       *)
(***************************************************************************)

\* Points as a score.
Pts(p) == p * SCALE

\* calculate_i_media without the upper clamp.
calculate_i_media_no_cap(val_i, x_ref) ==
    IF x_ref <= 0 THEN 0
    ELSE LET i_media == MulDiv(val_i * 100, SCALE, x_ref)
         IN  IF i_media = ERR THEN ERR
             ELSE IF i_media < 0 THEN 0
             ELSE i_media

\* calculate_i_media without the lower clamp.
calculate_i_media_no_floor(val_i, x_ref) ==
    IF x_ref <= 0 THEN 0
    ELSE LET i_media == MulDiv(val_i * 100, SCALE, x_ref)
         IN  IF i_media = ERR THEN ERR
             ELSE IF i_media > Pts(100) THEN Pts(100)
             ELSE i_media

calculate_i_media(val_i, x_ref) ==
    IF x_ref <= 0 THEN 0
    ELSE LET i_media == MulDiv(val_i * 100, SCALE, x_ref)
         IN  IF i_media = ERR THEN ERR
             ELSE IF i_media < 0 THEN 0
             ELSE IF i_media > Pts(100) THEN Pts(100)
             ELSE i_media

\* calculate_v_vol with the sample deviation (divisor n - 1).
calculate_v_vol_sample(monthly_values, x_ref) ==
    IF Len(monthly_values) < 2 THEN 0
    ELSE LET n  == Len(monthly_values)
             S  == SumSeq(monthly_values)
             mu == MulDiv(S, SCALE, n)
             threshold == IF x_ref # None /\ x_ref # 0 /\ x_ref > 0
                          THEN Pct(x_ref * SCALE, 1) ELSE Pts(1)
         IN  IF mu < threshold THEN INF
             ELSE LET SS == SumSeq([i \in 1..n |->
                                (n * monthly_values[i] - S) * (n * monthly_values[i] - S)])
                      sigma_n == ISqrt(SS \div (n - 1))
                  IN  MulDiv(sigma_n, SCALE, S)

\* monthly_values in MediaIndex units (or publications); x_ref or None.
\* With n = len, S = sum: mu = S / n; the deviations are taken n-fold
\* (n * x - S), so sigma_n = n * sigma and sigma / mu = sigma_n / S.
calculate_v_vol(monthly_values, x_ref) ==
    IF Len(monthly_values) < 2 THEN 0
    ELSE LET n  == Len(monthly_values)
             S  == SumSeq(monthly_values)
             mu == MulDiv(S, SCALE, n)
             threshold == IF x_ref # None /\ x_ref # 0 /\ x_ref > 0
                          THEN Pct(x_ref * SCALE, 1) ELSE Pts(1)
         IN  IF mu < threshold THEN INF
             ELSE LET SS == SumSeq([i \in 1..n |->
                                (n * monthly_values[i] - S) * (n * monthly_values[i] - S)])
                      sigma_n == ISqrt(SS \div n)
                  IN  MulDiv(sigma_n, SCALE, S)

\* calculate_m_stab giving full credit on the sentinel.
calculate_m_stab_inf_kept(i_media, v_vol) ==
    IF i_media = ERR \/ v_vol = ERR THEN ERR
    ELSE IF v_vol = INF THEN i_media
    ELSE MulDiv(i_media, SCALE, SCALE + v_vol)

\* calculate_m_stab with a linear discount, i_media * (1 - v_vol).
calculate_m_stab_linear(i_media, v_vol) ==
    IF i_media = ERR \/ v_vol = ERR THEN ERR
    ELSE IF v_vol = INF THEN 0
    ELSE MulDiv(i_media, SCALE - v_vol, SCALE)

calculate_m_stab(i_media, v_vol) ==
    IF i_media = ERR \/ v_vol = ERR THEN ERR
    ELSE IF v_vol = INF THEN 0
    ELSE MulDiv(i_media, SCALE, SCALE + v_vol)

\* calculate_v_hr guarding total <= 0 only.
calculate_v_hr_guard_zero(rank, total) ==
    IF total <= 0 THEN 0
    ELSE LET q == MulDiv(rank - 1, SCALE, total - 1)
         IN  IF q = ERR THEN ERR
             ELSE Max(0, Min(Pts(100), (SCALE - q) * 100))

\* calculate_v_hr without the clamp.
calculate_v_hr_unclamped(rank, total) ==
    IF total <= 1 THEN 0
    ELSE LET q == MulDiv(rank - 1, SCALE, total - 1)
         IN  IF q = ERR THEN ERR
             ELSE (SCALE - q) * 100

calculate_v_hr(rank, total) ==
    IF total <= 1 THEN 0
    ELSE LET q == MulDiv(rank - 1, SCALE, total - 1)
         IN  IF q = ERR THEN ERR
             ELSE Max(0, Min(Pts(100), (SCALE - q) * 100))

calculate_r_transp(indicators) ==
    Pts(SumSeq([i \in 1..Len(indicators) |-> IF indicators[i] THEN 10 ELSE 0]))

\* calculate_r_inst without the cap.
calculate_r_inst_uncapped(indicators, scores) ==
    LET m == Min(Len(indicators), Len(scores))
        total == SumSeq([i \in 1..m |-> IF indicators[i] THEN scores[i] ELSE 0])
    IN  Pts(total)

\* calculate_r_inst capped at the total of the catalog.
calculate_r_inst_cap_120(indicators, scores) ==
    LET m == Min(Len(indicators), Len(scores))
        total == SumSeq([i \in 1..m |-> IF indicators[i] THEN scores[i] ELSE 0])
    IN  Pts(Min(total, 120))

\* zip stops at the shorter of the two lists.
calculate_r_inst(indicators, scores) ==
    LET m == Min(Len(indicators), Len(scores))
        total == SumSeq([i \in 1..m |-> IF indicators[i] THEN scores[i] ELSE 0])
    IN  Pts(Min(total, 100))

calculate_s_rep(v_hr, r_transp, r_inst) ==
    IF ERR \in {v_hr, r_transp, r_inst} THEN ERR
    ELSE Quot(v_hr + r_transp + r_inst, 3)

calculate_i_core(m_stab, s_rep) ==
    IF ERR \in {m_stab, s_rep} THEN ERR
    ELSE Pct(m_stab, 60) + Pct(s_rep, 40)

\* calculate_i_adj without the scale multiplier.
calculate_i_adj_no_scale(i_core, k_risk, k_scale) == Pct(i_core, k_risk)

\* k_risk and k_scale in hundredths.
calculate_i_adj(i_core, k_risk, k_scale) == Pct(Pct(i_core, k_risk), k_scale)

\* get_k_scale with the head count strictly above 100000.
get_k_scale_above(employees, is_strategic) ==
    IF employees > 100000 \/ is_strategic THEN 105 ELSE 100

get_k_scale(employees, is_strategic) ==
    IF employees >= 100000 \/ is_strategic THEN 105 ELSE 100

\* revenue and costs in millions; the result in percent, as a score.
calculate_roi(revenue, costs) ==
    IF costs <= 0 THEN 0
    ELSE LET q == MulDiv(revenue - costs, SCALE, costs)
         IN  IF q = ERR THEN ERR ELSE q * 100

calculate_sroi(social_value, costs) ==
    IF costs <= 0 THEN 0
    ELSE LET q == MulDiv(social_value - costs, SCALE, costs)
         IN  IF q = ERR THEN ERR ELSE q * 100

\* get_k_roi growing with roi up to 0.05.
get_k_roi_proportional(roi) == IF roi > 0 THEN Min(5, roi \div Pts(3)) ELSE 0

get_k_roi(roi) == IF roi > 0 THEN 5 ELSE 0

get_k_sroi(sroi) == IF sroi > 0 THEN 10 ELSE 0

\* get_k_budget penalising a deviation of 10 and more.
get_k_budget_inclusive(plan, fact, has_approval) ==
    IF plan <= 0 THEN 0
    ELSE LET q == MulDiv(fact - plan, SCALE, plan)
         IN  IF q = ERR THEN ERR
             ELSE LET deviation == q * 100
                  IN  IF deviation >= Pts(10) /\ ~has_approval THEN -10 ELSE 0

get_k_budget(plan, fact, has_approval) ==
    IF plan <= 0 THEN 0
    ELSE LET q == MulDiv(fact - plan, SCALE, plan)
         IN  IF q = ERR THEN ERR
             ELSE LET deviation == q * 100
                  IN  IF deviation > Pts(10) /\ ~has_approval THEN -10 ELSE 0

\* In hundredths.
calculate_k_eff(k_roi, k_sroi, k_budget) == 100 + k_roi + k_sroi + k_budget

calculate_iseec_e(iseec_b, k_eff) == Pct(iseec_b, k_eff)

\* get_quality_rating with the top band closed at 100.
get_quality_rating_closed_top(value) ==
    IF value >= Pts(100) THEN <<"Very High", "green", "#28a745">>
    ELSE IF value >= Pts(76) THEN <<"High", "green", "#28a745">>
    ELSE IF value >= Pts(51) THEN <<"Medium", "yellow", "#ffc107">>
    ELSE IF value >= Pts(26) THEN <<"Low", "orange", "#fd7e14">>
    ELSE <<"Critically Low", "red", "#dc3545">>

\* get_quality_rating with the Medium band opening at 50.
get_quality_rating_medium_50(value) ==
    IF value > Pts(100) THEN <<"Very High", "green", "#28a745">>
    ELSE IF value >= Pts(76) THEN <<"High", "green", "#28a745">>
    ELSE IF value >= Pts(50) THEN <<"Medium", "yellow", "#ffc107">>
    ELSE IF value >= Pts(26) THEN <<"Low", "orange", "#fd7e14">>
    ELSE <<"Critically Low", "red", "#dc3545">>

\* (level, marker, colour)
get_quality_rating(value) ==
    IF value > Pts(100) THEN <<"Very High", "green", "#28a745">>
    ELSE IF value >= Pts(76) THEN <<"High", "green", "#28a745">>
    ELSE IF value >= Pts(51) THEN <<"Medium", "yellow", "#ffc107">>
    ELSE IF value >= Pts(26) THEN <<"Low", "orange", "#fd7e14">>
    ELSE <<"Critically Low", "red", "#dc3545">>

calculate_manual_track_i_media(n_pos, n_neg, n_total) ==
    IF n_total <= 0 THEN 0
    ELSE LET q == MulDiv(n_pos - n_neg, SCALE, n_total)
         IN  IF q = ERR THEN ERR
             ELSE Max(0, Min(Pts(100), (SCALE + q) * 50))

\* The key of recommendations.sort: (priority, -potential).
SortKeyLeq(a, b) ==
    \/ a.priority < b.priority
    \/ a.priority = b.priority /\ (0 - a.potential) <= (0 - b.potential)

\* InsertStable placing x before the entries whose key equals its own.
RECURSIVE InsertStable_before(_, _)
InsertStable_before(x, sorted) ==
    IF sorted = << >> THEN <<x>>
    ELSE IF \/ Head(sorted).priority < x.priority
            \/ Head(sorted).priority = x.priority /\ Head(sorted).potential > x.potential
         THEN <<Head(sorted)>> \o InsertStable_before(x, Tail(sorted))
         ELSE <<x>> \o sorted

\* x placed after every entry whose key is not greater than its own.
RECURSIVE InsertStable(_, _)
InsertStable(x, sorted) ==
    IF sorted = << >> THEN <<x>>
    ELSE IF SortKeyLeq(Head(sorted), x)
         THEN <<Head(sorted)>> \o InsertStable(x, Tail(sorted))
         ELSE <<x>> \o sorted

\* list.sort(key): stable, ascending.
RECURSIVE SortStable(_)
SortStable(s) ==
    IF s = << >> THEN << >>
    ELSE InsertStable(s[Len(s)], SortStable(SubSeq(s, 1, Len(s) - 1)))

\* The list before it is sorted: transparency gaps, institutional gaps,
\* employer brand, media activity.
collect_recommendations(transp_indicators, inst_indicators, inst_scores, v_hr, m_stab) ==
    LET nt == Min(Len(transp_indicators), Len(TRANSP_CRITERIA))
        ni == Min(Len(INST_CRITERIA), Len(inst_indicators))
        KeepT(i) == ~transp_indicators[i]
        MakeT(i) == [area |-> "Transparency", action |-> TRANSP_CRITERIA[i],
                     potential |-> 10, priority |-> 2]
        KeepI(i) == ~inst_indicators[i]
        MakeI(i) == [area |-> "Institutional maturity", action |-> INST_CRITERIA[i][1],
                     potential |-> INST_CRITERIA[i][2],
                     priority |-> IF INST_CRITERIA[i][2] = 10 THEN 2 ELSE 3]
        hr == IF v_hr < Pts(50)
              THEN << [area |-> "HR brand", action |-> "employer_ranking",
                       potential |-> 50, priority |-> 1] >>
              ELSE << >>
        media == IF m_stab < Pts(50)
                 THEN << [area |-> "Media activity", action |-> "more_publications",
                          potential |-> 30, priority |-> 1] >>
                 ELSE << >>
        unmetT == SelectSeq([i \in 1..nt |-> i], KeepT)
        unmetI == SelectSeq([i \in 1..ni |-> i], KeepI)
    IN  [k \in 1..Len(unmetT) |-> MakeT(unmetT[k])]
        \o [k \in 1..Len(unmetI) |-> MakeI(unmetI[k])] \o hr \o media

\* generate_recommendations returning the whole sorted list.
generate_recommendations_untruncated(transp_indicators, inst_indicators, inst_scores, v_hr, m_stab) ==
    SortStable(collect_recommendations(transp_indicators, inst_indicators, inst_scores,
                                       v_hr, m_stab))

\* generate_recommendations cutting to five before it sorts.
generate_recommendations_cut_first(transp_indicators, inst_indicators, inst_scores, v_hr, m_stab) ==
    LET recs == collect_recommendations(transp_indicators, inst_indicators, inst_scores,
                                        v_hr, m_stab)
    IN  SortStable(SubSeq(recs, 1, Min(5, Len(recs))))

generate_recommendations(transp_indicators, inst_indicators, inst_scores, v_hr, m_stab) ==
    LET recs == collect_recommendations(transp_indicators, inst_indicators, inst_scores,
                                        v_hr, m_stab)
        sorted == SortStable(recs)
    IN  SubSeq(sorted, 1, Min(5, Len(sorted)))

(***************************************************************************)
(* Inputs of the form of page_calculator                                   *)
(***************************************************************************)

\* Most criteria of a checklist that differ from "all unmet" or "all met".
MaxFlip == 1

\* Subsets of S with at most k elements.
SmallSubsets(S, k) == { T \in SUBSET S : Cardinality(T) <= k }

\* Checklists of n boxes as ticked on the form: the first k boxes, for k in ks.
FirstTicked(n, ks) == { [i \in 1..n |-> i <= k] : k \in ks }

\* Checklists of n boxes: at most MaxFlip ticked, at most MaxFlip not ticked,
\* or any number of the first boxes ticked.
Checklists(n) ==
    { [i \in 1..n |-> i \in T] : T \in SmallSubsets(1..n, MaxFlip) }
    \cup { [i \in 1..n |-> i \notin T] : T \in SmallSubsets(1..n, MaxFlip) }
    \cup FirstTicked(n, 0..n)

\* st.number_input "employees", min_value=0.
EmployeesSet == {10000, 100000}

\* st.number_input "Val_i", min_value=-1000000.0.
ValISet == {-1000, 22500}

\* st.number_input "X_ref", min_value=1.0, when entered by hand.
CustomXRefSet == {100}

\* Twelve monthly values: k months at a, the rest at b.
Series(a, b, k) == [i \in 1..12 |-> IF i <= k THEN a ELSE b]

\* Monthly MediaIndex values, min_value=-100000.0.
MediaSeriesSet == { Series(400, 400, 0), Series(1500, 400, 6) }

\* (n_total, n_pos, n_neg): each min_value=0, not tied to each other.
ManualCounts == { <<0, 30, 30>>, <<100, 70, 30>>, <<30, 100, 0>>, <<30, 0, 100>> }

\* Monthly publication counts, min_value=0.
ManualSeriesSet == { Series(8, 8, 0), Series(0, 0, 0) }

\* hr_rank and hr_total, min_value=1.
RankSet == {1, 700}

\* The slider of v_hr: 0.0 .. 100.0 in steps of 5.0.
SliderSet == { Pts(45) }

\* ROI and SROI entered as a percentage (any float).
PercentSet == {-5, 0, 15}

\* Amounts in millions, min_value=0.0.
AmountSet == {0, 430, 473, 480}

\* The ways to give a return: a percentage, a value with its costs, or nothing.
\* <<method, percentage, value, costs>>, the fields not asked for at 0.
ReturnInputs ==
    { <<"enter", p, 0, 0>> : p \in PercentSet }
    \cup { <<"compute", 0, v, c>> : v \in AmountSet, c \in AmountSet }
    \cup { <<"no_data", 0, 0, 0>> }

(***************************************************************************)
(* A run of page_calculator.  Streamlit executes the script from top to    *)
(* bottom on every interaction; pc is the block the run has reached and    *)
(* loc holds the locals that later blocks read.  company_name and          *)
(* report_year only label the reports and are left out.  The run modelled  *)
(* is one in which the look-up button of block 1 was not the one pressed.  *)
(***************************************************************************)

\* The locals before the script has assigned them.
NoLocals ==
    [ industry |-> NoneStr, employees |-> None, is_strategic |-> FALSE,
      k_risk |-> None, k_scale |-> None, default_x_ref |-> None,
      i_media |-> None, v_vol |-> None, m_stab |-> None, v_hr |-> None,
      transp_indicators |-> << >>, inst_indicators |-> << >>, inst_scores |-> << >>,
      r_transp |-> None, r_inst |-> None,
      use_extended |-> FALSE, k_roi_val |-> 0, k_sroi_val |-> 0, k_budget_val |-> 0 ]

\* Where the run goes after a block: an uncaught exception ends the run.
After(values, next) == IF ERR \in values THEN "error" ELSE next

\* session_state with key k set to v.
SetKey(ss, k, v) == (k :> v) @@ ss

\* session_state with key k set to v unless k is present.
SetDefault(ss, k, v) == IF k \in DOMAIN ss THEN ss ELSE SetKey(ss, k, v)

\* Block 1: the auto-fill keys, the industry, the head count and the
\* strategic flag; k_risk and k_scale.
BlockCompany ==
    /\ pc = "start"
    /\ \E industry \in IndustryNames, employees \in EmployeesSet, is_strategic \in BOOLEAN :
          LET ind_data == INDUSTRY_DATA[industry]
              k_risk == ind_data.k_risk
              k_scale == get_k_scale(employees, is_strategic)
          IN  /\ loc' = [loc EXCEPT !.industry = industry, !.employees = employees,
                                     !.is_strategic = is_strategic, !.k_risk = k_risk,
                                     !.k_scale = k_scale, !.default_x_ref = ind_data.x_ref]
              /\ pc' = After({k_scale}, "media")
    /\ session_state' = SetDefault(SetDefault(SetDefault(session_state,
                            "auto_company_name", ""), "auto_industry", NoneStr),
                            "auto_employees", None)
    /\ UNCHANGED call

\* Block 2, first source: the yearly MediaIndex against x_ref.
BlockMediaMedialogia ==
    /\ pc = "media"
    /\ \E media_index_year \in ValISet, monthly_values \in MediaSeriesSet,
          x_ref \in {loc.default_x_ref} \cup CustomXRefSet :
          LET i_media == calculate_i_media(media_index_year, x_ref)
              v_vol == calculate_v_vol(monthly_values, x_ref)
              m_stab == calculate_m_stab(i_media, v_vol)
          IN  /\ loc' = [loc EXCEPT !.i_media = i_media,
                                     !.v_vol = v_vol, !.m_stab = m_stab]
              /\ pc' = After({i_media, v_vol, m_stab}, "hr")
    /\ UNCHANGED <<session_state, call>>

\* Block 2, second source: counts of publications, no x_ref.
BlockMediaManual ==
    /\ pc = "media"
    /\ \E counts \in ManualCounts, monthly_values \in ManualSeriesSet :
          LET n_total == counts[1]
              n_pos == counts[2]
              n_neg == counts[3]
              i_media == calculate_manual_track_i_media(n_pos, n_neg, n_total)
              v_vol == calculate_v_vol(monthly_values, None)
              m_stab == calculate_m_stab(i_media, v_vol)
          IN  /\ loc' = [loc EXCEPT !.i_media = i_media,
                                     !.v_vol = v_vol, !.m_stab = m_stab]
              /\ pc' = After({i_media, v_vol, m_stab}, "hr")
    /\ UNCHANGED <<session_state, call>>

\* The four options of the radio of block 3.
HrSources == {"ranked", "absent_large", "absent_small", "other"}

\* v_hr as block 3 assigns it: the ranking formula, 0, 50 or the slider.
v_hr_by_source(hr_source, hr_rank, hr_total, slider) ==
    CASE hr_source = "ranked" -> calculate_v_hr(hr_rank, hr_total)
      [] hr_source = "absent_large" -> 0
      [] hr_source = "absent_small" -> Pts(50)
      [] OTHER -> slider

\* Block 3: the employer brand, by one of the four options.
BlockHR ==
    /\ pc = "hr"
    /\ \E hr_source \in HrSources,
          hr_rank \in RankSet, hr_total \in RankSet, slider \in SliderSet :
          LET v_hr == v_hr_by_source(hr_source, hr_rank, hr_total, slider)
          IN  /\ loc' = [loc EXCEPT !.v_hr = v_hr]
              /\ pc' = After({v_hr}, "checklists")
    /\ UNCHANGED <<session_state, call>>

\* Blocks 4 and 5: the two checklists.
BlockChecklists ==
    /\ pc = "checklists"
    /\ \E transp_indicators \in FirstTicked(Len(TRANSP_CRITERIA), {0, 10}),
          inst_indicators \in FirstTicked(Len(INST_CRITERIA), {0, 13}) :
          LET inst_scores == [i \in 1..Len(INST_CRITERIA) |-> INST_CRITERIA[i][2]]
              r_transp == calculate_r_transp(transp_indicators)
              r_inst == calculate_r_inst(inst_indicators, inst_scores)
          IN  /\ loc' = [loc EXCEPT !.transp_indicators = transp_indicators,
                                     !.inst_indicators = inst_indicators,
                                     !.inst_scores = inst_scores,
                                     !.r_transp = r_transp, !.r_inst = r_inst]
              /\ pc' = After({r_transp, r_inst}, "extended")
    /\ UNCHANGED <<session_state, call>>

\* Block 6 without the extended contour.
BlockExtendedOff ==
    /\ pc = "extended"
    /\ loc' = [loc EXCEPT !.use_extended = FALSE, !.k_roi_val = 0,
                           !.k_sroi_val = 0, !.k_budget_val = 0]
    /\ pc' = "button"
    /\ UNCHANGED <<session_state, call>>

\* Block 6 with the extended contour, ROI: entered, computed or no data.
BlockExtendedROI ==
    /\ pc = "extended"
    /\ \E inp \in ReturnInputs :
          LET roi_method == inp[1]
              percent == inp[2]
              revenue == inp[3]
              costs == inp[4]
              roi_value == IF roi_method = "enter" THEN Pts(percent)
                           ELSE calculate_roi(revenue, costs)
              k_roi_val == IF roi_method = "no_data" THEN 0
                           ELSE IF roi_value = ERR THEN ERR
                           ELSE get_k_roi(roi_value)
          IN  /\ loc' = [loc EXCEPT !.use_extended = TRUE, !.k_roi_val = k_roi_val,
                                     !.k_sroi_val = 0, !.k_budget_val = 0]
              /\ pc' = After({k_roi_val}, "sroi")
    /\ UNCHANGED <<session_state, call>>

\* Block 6, SROI: entered, computed or no data.
BlockExtendedSROI ==
    /\ pc = "sroi"
    /\ \E inp \in ReturnInputs :
          LET sroi_method == inp[1]
              percent == inp[2]
              social_value == inp[3]
              costs_sroi == inp[4]
              sroi_value == IF sroi_method = "enter" THEN Pts(percent)
                            ELSE calculate_sroi(social_value, costs_sroi)
              k_sroi_val == IF sroi_method = "no_data" THEN 0
                            ELSE IF sroi_value = ERR THEN ERR
                            ELSE get_k_sroi(sroi_value)
          IN  /\ loc' = [loc EXCEPT !.k_sroi_val = k_sroi_val]
              /\ pc' = After({k_sroi_val}, "budget")
    /\ UNCHANGED <<session_state, call>>

\* Block 6, budget discipline.
BlockExtendedBudget ==
    /\ pc = "budget"
    /\ \E budget_plan \in AmountSet, budget_fact \in AmountSet, has_approval \in BOOLEAN :
          LET k_budget_val == get_k_budget(budget_plan, budget_fact, has_approval)
          IN  /\ loc' = [loc EXCEPT !.k_budget_val = k_budget_val]
              /\ pc' = After({k_budget_val}, "button")
    /\ UNCHANGED <<session_state, call>>

\* The truth value Python gives a number or None.
Truthy(x) == x # None /\ x # 0

\* generate_word_report: whether the document carries the line and the
\* section of the extended score (both under "if r['iseec_e']").
generate_word_report_has_iseec_e(r) == Truthy(r.iseec_e)

\* report_text of the export block: whether it carries the ISEEC_E line.
report_text_has_iseec_e(r) == Truthy(r.iseec_e)

\* ExtendedContour storing 0 when the contour was not asked for.
ExtendedContour_zero(use_extended, iseec_b, k_roi_val, k_sroi_val, k_budget_val) ==
    IF use_extended
    THEN LET k_eff == calculate_k_eff(k_roi_val, k_sroi_val, k_budget_val)
         IN  [k_eff |-> k_eff, iseec_e |-> calculate_iseec_e(iseec_b, k_eff)]
    ELSE [k_eff |-> 0, iseec_e |-> 0]

\* The optional part of the calculation: k_eff and iseec_e, or None for both.
ExtendedContour(use_extended, iseec_b, k_roi_val, k_sroi_val, k_budget_val) ==
    IF use_extended
    THEN LET k_eff == calculate_k_eff(k_roi_val, k_sroi_val, k_budget_val)
         IN  [k_eff |-> k_eff, iseec_e |-> calculate_iseec_e(iseec_b, k_eff)]
    ELSE [k_eff |-> None, iseec_e |-> None]

\* The button was pressed: the scores, the ratings and the recommendations
\* are computed and stored in the session; the script ends.
Calculate ==
    /\ pc = "button"
    /\ LET s_rep == calculate_s_rep(loc.v_hr, loc.r_transp, loc.r_inst)
           i_core == calculate_i_core(loc.m_stab, s_rep)
           i_adj == calculate_i_adj(i_core, loc.k_risk, loc.k_scale)
           iseec_b == i_adj
           ext == ExtendedContour(loc.use_extended, iseec_b, loc.k_roi_val,
                                  loc.k_sroi_val, loc.k_budget_val)
           k_eff == ext.k_eff
           iseec_e == ext.iseec_e
           rating_b == get_quality_rating(iseec_b)[1]
           recs == generate_recommendations(loc.transp_indicators, loc.inst_indicators,
                                            loc.inst_scores, loc.v_hr, loc.m_stab)
           res == [ industry |-> loc.industry, employees |-> loc.employees,
                    is_strategic |-> loc.is_strategic, m_stab |-> loc.m_stab,
                    i_media |-> loc.i_media, v_vol |-> loc.v_vol, v_hr |-> loc.v_hr,
                    r_transp |-> loc.r_transp, r_inst |-> loc.r_inst, s_rep |-> s_rep,
                    i_core |-> i_core, k_risk |-> loc.k_risk, k_scale |-> loc.k_scale,
                    i_adj |-> i_adj, iseec_b |-> iseec_b, iseec_e |-> iseec_e,
                    k_eff |-> k_eff, rating_b |-> rating_b,
                    rating_e |-> IF Truthy(iseec_e) THEN get_quality_rating(iseec_e)[1]
                                 ELSE NoneStr ]
       IN  IF ERR \in {s_rep, i_core, i_adj, iseec_e}
           THEN pc' = "error" /\ UNCHANGED session_state
           ELSE /\ session_state' = SetKey(SetKey(session_state, "results", res),
                                           "recommendations", recs)
                /\ pc' = "done"
    /\ loc' = NoLocals
    /\ UNCHANGED call

\* The run ends without the button having been pressed.
NoCalculate ==
    /\ pc = "button"
    /\ pc' = "done"
    /\ loc' = NoLocals
    /\ UNCHANGED <<session_state, call>>

\* The browser session ends and a new one begins.
NewSession ==
    /\ pc \in {"done", "error"}
    /\ pc' = "start"
    /\ loc' = NoLocals
    /\ session_state' = << >>
    /\ UNCHANGED call

NoCall == [fn |-> "none"]

Init ==
    /\ session_state = << >>
    /\ pc = "start"
    /\ loc = NoLocals
    /\ call = NoCall

Next ==
    \/ BlockCompany
    \/ BlockMediaMedialogia
    \/ BlockMediaManual
    \/ BlockHR
    \/ BlockChecklists
    \/ BlockExtendedOff
    \/ BlockExtendedROI
    \/ BlockExtendedSROI
    \/ BlockExtendedBudget
    \/ Calculate
    \/ NoCalculate
    \/ NewSession

Spec == Init /\ [][Next]_vars

\* Every run keeps what it stores well-formed.
TypeOK ==
    /\ pc \in {"start", "media", "hr", "checklists", "extended", "sroi", "budget",
               "button", "done", "error", "unit"}
    /\ "results" \in DOMAIN session_state <=> "recommendations" \in DOMAIN session_state

(***************************************************************************)
(* Direct calls of the scoring functions.  call records the function, its  *)
(* arguments and what it returned.                                         *)
(***************************************************************************)

\* Largest count of publications, rank and number of participants called with.
MaxCount == 4

\* Scores at, next to and between the edges of the rating bands.
RatingInputs ==
    { Pts(b) + d : b \in {0, 25, 26, 50, 51, 75, 76, 100, 130},
                   d \in {-1, 0, 1, SCALE \div 2} }

\* Yearly MediaIndex values and references, in and out of their ranges.
UnitValSet == {-1000, 0, 1, 22500, 45000, 70000}

UnitXRefSet == {-100, 0, 100, 45000, 60000}

\* Monthly series: too short, constant, uneven, negative.
UnitSeriesSet ==
    { << >>, <<5>> }
    \cup { Series(a, b, k) : a \in {-400, 0, 1, 8, 1500}, b \in {0, 1, 400}, k \in {0, 1, 6} }

\* Scores of v_hr and m_stab around the threshold of 50.
HalfScores == { 0, Pts(50) - 1, Pts(50), Pts(100) }

\* All checklists of n boxes.
AllChecklists(n) == [1..n -> BOOLEAN]

\* The caller is ready for a call.
Ready == pc = "unit" /\ call = NoCall

CallGetQualityRating ==
    /\ Ready
    /\ \E value \in RatingInputs :
           call' = [fn |-> "get_quality_rating", value |-> value,
                    ret |-> get_quality_rating(value)[1]]
    /\ UNCHANGED <<session_state, pc, loc>>

CallCalculateIMedia ==
    /\ Ready
    /\ \E val_i \in UnitValSet, x_ref \in UnitXRefSet :
           call' = [fn |-> "calculate_i_media", val_i |-> val_i, x_ref |-> x_ref,
                    ret |-> calculate_i_media(val_i, x_ref)]
    /\ UNCHANGED <<session_state, pc, loc>>

CallCalculateManualTrackIMedia ==
    /\ Ready
    /\ \E n_pos \in 0..MaxCount, n_neg \in 0..MaxCount, n_total \in -1..MaxCount :
           call' = [fn |-> "calculate_manual_track_i_media", n_pos |-> n_pos,
                    n_neg |-> n_neg, n_total |-> n_total,
                    ret |-> calculate_manual_track_i_media(n_pos, n_neg, n_total)]
    /\ UNCHANGED <<session_state, pc, loc>>

\* calculate_m_stab on the volatility that calculate_v_vol returns.
CallCalculateMStab ==
    /\ Ready
    /\ \E monthly_values \in UnitSeriesSet, x_ref \in UnitXRefSet \cup {None},
          i_media \in HalfScores :
           LET v_vol == calculate_v_vol(monthly_values, x_ref)
           IN  call' = [fn |-> "calculate_m_stab", monthly_values |-> monthly_values,
                        x_ref |-> x_ref, i_media |-> i_media, v_vol |-> v_vol,
                        ret |-> calculate_m_stab(i_media, v_vol)]
    /\ UNCHANGED <<session_state, pc, loc>>

\* Volatilities: none, the smallest, moderate, above one, the sentinel.
VolSet == { 0, 1, SCALE \div 2, SCALE, 3 * SCALE, INF }

\* Two calls of calculate_i_media with the same x_ref.
CallCalculateIMediaTwice ==
    /\ Ready
    /\ \E value1 \in UnitValSet, value2 \in UnitValSet, x_ref \in UnitXRefSet :
           call' = [fn |-> "calculate_i_media twice", value1 |-> value1,
                    value2 |-> value2, x_ref |-> x_ref,
                    ret1 |-> calculate_i_media(value1, x_ref),
                    ret2 |-> calculate_i_media(value2, x_ref)]
    /\ UNCHANGED <<session_state, pc, loc>>

\* Two calls of calculate_m_stab with the same i_media.
CallCalculateMStabTwice ==
    /\ Ready
    /\ \E i_media \in HalfScores, v1 \in VolSet, v2 \in VolSet :
           call' = [fn |-> "calculate_m_stab twice", i_media |-> i_media,
                    v1 |-> v1, v2 |-> v2,
                    ret1 |-> calculate_m_stab(i_media, v1),
                    ret2 |-> calculate_m_stab(i_media, v2)]
    /\ UNCHANGED <<session_state, pc, loc>>

CallCalculateVVol ==
    /\ Ready
    /\ \E monthly_values \in UnitSeriesSet, x_ref \in UnitXRefSet \cup {None} :
           call' = [fn |-> "calculate_v_vol", monthly_values |-> monthly_values,
                    x_ref |-> x_ref, ret |-> calculate_v_vol(monthly_values, x_ref)]
    /\ UNCHANGED <<session_state, pc, loc>>

CallCalculateVHr ==
    /\ Ready
    /\ \E rank \in 1..(MaxCount + 1), total \in 0..MaxCount :
           call' = [fn |-> "calculate_v_hr", rank |-> rank, total |-> total,
                    ret |-> calculate_v_hr(rank, total)]
    /\ UNCHANGED <<session_state, pc, loc>>

\* Two calls of calculate_v_hr with the same total.
CallCalculateVHrTwice ==
    /\ Ready
    /\ \E rank1 \in 1..(MaxCount + 1), rank2 \in 1..(MaxCount + 1), total \in 0..MaxCount :
           call' = [fn |-> "calculate_v_hr twice", rank1 |-> rank1, rank2 |-> rank2,
                    total |-> total, ret1 |-> calculate_v_hr(rank1, total),
                    ret2 |-> calculate_v_hr(rank2, total)]
    /\ UNCHANGED <<session_state, pc, loc>>

\* v_hr of block 3 for each option of the radio.
CallVHrBySource ==
    /\ Ready
    /\ \E hr_source \in HrSources, hr_rank \in 1..(MaxCount + 1),
          hr_total \in 1..MaxCount, slider \in SliderSet :
           call' = [fn |-> "v_hr_by_source", hr_source |-> hr_source, rank |-> hr_rank,
                    total |-> hr_total, slider |-> slider,
                    ret |-> v_hr_by_source(hr_source, hr_rank, hr_total, slider)]
    /\ UNCHANGED <<session_state, pc, loc>>

\* Head counts at, next to and away from 100000.
UnitEmployeesSet == {0, 10000, 99999, 100000, 100001}

CallGetKScale ==
    /\ Ready
    /\ \E employees \in UnitEmployeesSet, is_strategic \in BOOLEAN :
           call' = [fn |-> "get_k_scale", employees |-> employees,
                    is_strategic |-> is_strategic,
                    ret |-> get_k_scale(employees, is_strategic)]
    /\ UNCHANGED <<session_state, pc, loc>>

\* Returns in percent: negative, none, the smallest positive, moderate, large.
UnitRoiSet == { Pts(-5), 0, 1, Pts(15), Pts(400) }

\* The three coefficients of block 6 and calculate_k_eff on them.
CallCalculateKEff ==
    /\ Ready
    /\ \E roi \in UnitRoiSet, sroi \in UnitRoiSet, plan \in AmountSet,
          fact \in AmountSet, has_approval \in BOOLEAN :
           LET k_roi == get_k_roi(roi)
               k_sroi == get_k_sroi(sroi)
               k_budget == get_k_budget(plan, fact, has_approval)
           IN  call' = [fn |-> "calculate_k_eff", roi |-> roi, sroi |-> sroi,
                        plan |-> plan, fact |-> fact, has_approval |-> has_approval,
                        k_roi |-> k_roi, k_sroi |-> k_sroi, k_budget |-> k_budget,
                        ret |-> calculate_k_eff(k_roi, k_sroi, k_budget)]
    /\ UNCHANGED <<session_state, pc, loc>>

CallCalculateRTransp ==
    /\ Ready
    /\ \E indicators \in AllChecklists(Len(TRANSP_CRITERIA)) :
           call' = [fn |-> "calculate_r_transp", indicators |-> indicators,
                    ret |-> calculate_r_transp(indicators)]
    /\ UNCHANGED <<session_state, pc, loc>>

CallCalculateRInst ==
    /\ Ready
    /\ \E indicators \in AllChecklists(Len(INST_CRITERIA)) :
           LET scores == [i \in 1..Len(INST_CRITERIA) |-> INST_CRITERIA[i][2]]
           IN  call' = [fn |-> "calculate_r_inst", indicators |-> indicators,
                        scores |-> scores, ret |-> calculate_r_inst(indicators, scores)]
    /\ UNCHANGED <<session_state, pc, loc>>

CallCalculateRoi ==
    /\ Ready
    /\ \E revenue \in AmountSet, costs \in AmountSet \cup {-1} :
           call' = [fn |-> "calculate_roi", revenue |-> revenue, costs |-> costs,
                    ret |-> calculate_roi(revenue, costs)]
    /\ UNCHANGED <<session_state, pc, loc>>

CallCalculateSroi ==
    /\ Ready
    /\ \E social_value \in AmountSet, costs \in AmountSet \cup {-1} :
           call' = [fn |-> "calculate_sroi", social_value |-> social_value, costs |-> costs,
                    ret |-> calculate_sroi(social_value, costs)]
    /\ UNCHANGED <<session_state, pc, loc>>

CallGetKBudget ==
    /\ Ready
    /\ \E plan \in AmountSet \cup {-1}, fact \in AmountSet, has_approval \in BOOLEAN :
           call' = [fn |-> "get_k_budget", plan |-> plan, fact |-> fact,
                    has_approval |-> has_approval,
                    ret |-> get_k_budget(plan, fact, has_approval)]
    /\ UNCHANGED <<session_state, pc, loc>>

InitFn ==
    /\ session_state = << >>
    /\ pc = "unit"
    /\ loc = NoLocals
    /\ call = NoCall

\* The caller takes the value returned and is ready for another call.
Return ==
    /\ pc = "unit"
    /\ call # NoCall
    /\ call' = NoCall
    /\ UNCHANGED <<session_state, pc, loc>>

NextFn ==
    \/ CallGetQualityRating
    \/ CallCalculateIMedia
    \/ CallCalculateManualTrackIMedia
    \/ CallCalculateMStab
    \/ CallCalculateIMediaTwice
    \/ CallCalculateMStabTwice
    \/ CallCalculateVVol
    \/ CallCalculateVHr
    \/ CallCalculateVHrTwice
    \/ CallVHrBySource
    \/ CallGetKScale
    \/ CallCalculateKEff
    \/ CallCalculateRTransp
    \/ CallCalculateRInst
    \/ CallCalculateRoi
    \/ CallCalculateSroi
    \/ CallGetKBudget
    \/ Return

SpecFn == InitFn /\ [][NextFn]_vars

CallGenerateRecommendations ==
    /\ Ready
    /\ \E transp_indicators \in Checklists(Len(TRANSP_CRITERIA)),
          inst_indicators \in Checklists(Len(INST_CRITERIA)),
          v_hr \in HalfScores, m_stab \in HalfScores :
          LET inst_scores == [i \in 1..Len(INST_CRITERIA) |-> INST_CRITERIA[i][2]]
          IN  call' = [fn |-> "generate_recommendations",
                       transp_indicators |-> transp_indicators,
                       inst_indicators |-> inst_indicators,
                       v_hr |-> v_hr, m_stab |-> m_stab,
                       ret |-> generate_recommendations(transp_indicators, inst_indicators,
                                                        inst_scores, v_hr, m_stab)]
    /\ UNCHANGED <<session_state, pc, loc>>

NextRec == CallGenerateRecommendations \/ Return

SpecRec == InitFn /\ [][NextRec]_vars

(***************************************************************************)
(* Direct uses of the industry registry.                                   *)
(***************************************************************************)

\* Identifiers handed to the registry: its keys and two it does not hold.
IdentifierSet == IndustryNames \cup {"Space", ""}

\* Every prefix of the registry.
AllPrefixes ==
    UNION { { INDUSTRY_DATA[n].okved_prefixes[k] :
                k \in 1..Len(INDUSTRY_DATA[n].okved_prefixes) } : n \in IndustryNames }

\* OKVED codes: empty, a prefix of the registry or a class no industry
\* lists, alone or followed by a subclass.
OkvedCodes ==
    { << >> }
    \cup { p \o t : p \in AllPrefixes \cup { <<"9", "9">>, <<"3", "0">>, <<"0", "9">>, <<"2">> },
                    t \in { << >>, <<"1">>, <<".", "1">>, <<".", "4", "6">> } }

CallIndustryDataGetitem ==
    /\ Ready
    /\ \E industry \in IdentifierSet :
           call' = [fn |-> "INDUSTRY_DATA_getitem", industry |-> industry,
                    ret |-> INDUSTRY_DATA_getitem(industry)]
    /\ UNCHANGED <<session_state, pc, loc>>

CallDetermineIndustryByOkved ==
    /\ Ready
    /\ \E okved \in OkvedCodes :
           call' = [fn |-> "determine_industry_by_okved", okved |-> okved,
                    ret |-> determine_industry_by_okved(okved)]
    /\ UNCHANGED <<session_state, pc, loc>>

NextReg ==
    \/ CallIndustryDataGetitem
    \/ CallDetermineIndustryByOkved
    \/ Return

SpecReg == InitFn /\ [][NextReg]_vars

(***************************************************************************)
(* Runs of page_calculator in which the look-up button of block 1 is the   *)
(* one pressed.  The run fills the auto-fill keys from what                *)
(* get_company_by_inn returned, shows the form with the defaults taken     *)
(* from them and ends; call records the returned value and the defaults.   *)
(***************************************************************************)

\* What get_company_by_inn can return: a dictionary with "error", or the
\* name, the OKVED code and the head count of the company found, the name
\* and the code possibly empty and the head count possibly None.
LookupResults ==
    { [error |-> TRUE, name |-> "", okved |-> << >>, employees |-> None] }
    \cup [ error : {FALSE}, name : {"", "Alpha", "Beta"},
           okved : { << >>, <<"6", "4", ".", "1">>, <<"4", "7">>, <<"9", "9">> },
           employees : {None, 5000, 120000} ]

\* The three keys as lines 567-572 leave them.
AutoKeys(ss) ==
    SetDefault(SetDefault(SetDefault(ss, "auto_company_name", ""),
                          "auto_industry", NoneStr), "auto_employees", None)

\* The handler of the look-up button on the value returned.
StoreLookup(ss, result) ==
    IF result.error THEN ss
    ELSE LET named == SetKey(ss, "auto_company_name", result.name)
             hinted == IF result.okved # << >>
                       THEN SetKey(named, "auto_industry",
                                   determine_industry_by_okved(result.okved))
                       ELSE named
         IN  IF Truthy(result.employees)
             THEN SetKey(hinted, "auto_employees", result.employees)
             ELSE hinted

\* The industry the selectbox shows first: the hint when it is a key of the
\* registry, the first key otherwise.
default_industry(ss) ==
    IF ss.auto_industry # NoneStr /\ ss.auto_industry \in IndustryNames
    THEN ss.auto_industry ELSE IndustryList[1]

\* The head count the form shows first.
default_employees(ss) ==
    IF Truthy(ss.auto_employees) THEN ss.auto_employees ELSE 10000

LookupCompany ==
    /\ pc = "start"
    /\ \E result \in LookupResults :
          LET ss == StoreLookup(AutoKeys(session_state), result)
          IN  /\ session_state' = ss
              /\ call' = [fn |-> "get_company_by_inn", result |-> result,
                           default_name |-> ss.auto_company_name,
                           default_industry |-> default_industry(ss),
                           default_employees |-> default_employees(ss)]
    /\ pc' = "start"
    /\ loc' = NoLocals

NextLookup == LookupCompany

SpecLookup == Init /\ [][NextLookup]_vars

(***************************************************************************)
(* Properties                                                              *)
(***************************************************************************)

\* A calculation has been stored in the session.
HasResults == "results" \in DOMAIN session_state

Res == session_state.results

\* The function of the last call.
Called(fn) == call.fn = fn

\* C1: the stored baseline score is i_core * k_risk * k_scale, with
\* i_core = 0.6 * m_stab + 0.4 * s_rep, k_risk the multiplier of the chosen
\* industry and k_scale the value of get_k_scale; nothing else is applied.
C1_BaselineScore ==
    HasResults =>
        LET r == Res
            k_risk == INDUSTRY_DATA[r.industry].k_risk
            k_scale == get_k_scale(r.employees, r.is_strategic)
            i_core == (r.m_stab * 60) \div 100 + (r.s_rep * 40) \div 100
        IN  /\ r.i_core = i_core
            /\ r.k_risk = k_risk
            /\ r.k_scale = k_scale
            /\ r.iseec_b = (((i_core * k_risk) \div 100) * k_scale) \div 100

\* A stored score raised by both multipliers.
C1_Witness ==
    /\ HasResults
    /\ Res.k_risk = 110
    /\ Res.k_scale = 105
    /\ Res.i_core > 0
    /\ Res.iseec_b > Res.i_core

\* C2: exactly 100 is High and anything above 100 is Very High; exactly 76
\* is High and the score one unit below 76 is Medium.
C2_BandEdges ==
    Called("get_quality_rating") =>
        /\ call.value = Pts(100) => call.ret = "High"
        /\ call.value > Pts(100) => call.ret = "Very High"
        /\ call.value = Pts(76) => call.ret = "High"
        /\ call.value = Pts(76) - 1 => call.ret = "Medium"

\* The score one unit above 100 was rated Very High.
C2_Witness ==
    /\ Called("get_quality_rating")
    /\ call.value = Pts(100) + 1
    /\ call.ret = "Very High"

\* C3 as stated: each band is returned exactly on the closed interval of the
\* rating table (Medium exactly on [51, 75], Low exactly on [26, 50],
\* Critically Low exactly when value <= 25).
C3_TableBands ==
    Called("get_quality_rating") =>
        /\ call.ret = "Very High" <=> call.value > Pts(100)
        /\ call.ret = "High" <=> (Pts(76) <= call.value /\ call.value <= Pts(100))
        /\ call.ret = "Medium" <=> (Pts(51) <= call.value /\ call.value <= Pts(75))
        /\ call.ret = "Low" <=> (Pts(26) <= call.value /\ call.value <= Pts(50))
        /\ call.ret = "Critically Low" <=> call.value <= Pts(25)

\* C3 (amended): the bands are half-open below the next edge: Very High
\* exactly when value > 100, High exactly when 76 <= value <= 100, Medium
\* exactly when 51 <= value < 76, Low exactly when 26 <= value < 51,
\* Critically Low exactly when value < 26; every score has exactly one band.
C3_HalfOpenBands ==
    Called("get_quality_rating") =>
        /\ call.ret = "Very High" <=> call.value > Pts(100)
        /\ call.ret = "High" <=> (Pts(76) <= call.value /\ call.value <= Pts(100))
        /\ call.ret = "Medium" <=> (Pts(51) <= call.value /\ call.value < Pts(76))
        /\ call.ret = "Low" <=> (Pts(26) <= call.value /\ call.value < Pts(51))
        /\ call.ret = "Critically Low" <=> call.value < Pts(26)
        /\ call.ret \in {"Very High", "High", "Medium", "Low", "Critically Low"}

\* A score strictly between 75 and 76 was rated Medium.
C3_Witness ==
    /\ Called("get_quality_rating")
    /\ call.value = Pts(75) + SCALE \div 2
    /\ call.ret = "Medium"

\* b does not come before a in the order (priority up, potential down).
InOrder(a, b) ==
    \/ a.priority < b.priority
    \/ a.priority = b.priority /\ a.potential >= b.potential

\* The criteria of a checklist that are not met.
Unmet(indicators) == { i \in DOMAIN indicators : ~indicators[i] }

\* C4: the list returned has at most 5 entries and is sorted by priority
\* ascending and, within a priority, by potential descending.
C4_AtMostFiveSorted ==
    Called("generate_recommendations") =>
        /\ Len(call.ret) <= 5
        /\ \A i \in 1..Len(call.ret) : \A j \in 1..Len(call.ret) :
              i < j => InOrder(call.ret[i], call.ret[j])

\* More than five gaps were cut to five entries of two priorities.
C4_Witness ==
    /\ Called("generate_recommendations")
    /\ Cardinality(Unmet(call.transp_indicators)) + Cardinality(Unmet(call.inst_indicators)) > 5
    /\ Len(call.ret) = 5
    /\ call.ret[1].priority = 1
    /\ call.ret[5].priority = 2

\* The entries of the returned list from one area.
FromArea(area) == { i \in 1..Len(call.ret) : call.ret[i].area = area }

\* C5: the employer-brand entry (potential 50, priority 1) is returned
\* exactly when v_hr < 50 and the media entry (potential 30, priority 1)
\* exactly when m_stab < 50, and every priority-1 entry comes before every
\* checklist gap, however many criteria are unmet.
C5_SystemicFirst ==
    Called("generate_recommendations") =>
        /\ (\E i \in FromArea("HR brand") :
                call.ret[i].potential = 50 /\ call.ret[i].priority = 1)
           <=> call.v_hr < Pts(50)
        /\ (\E i \in FromArea("Media activity") :
                call.ret[i].potential = 30 /\ call.ret[i].priority = 1)
           <=> call.m_stab < Pts(50)
        /\ \A i \in 1..Len(call.ret) :
              \A j \in FromArea("Transparency") \cup FromArea("Institutional maturity") :
                 call.ret[i].priority = 1 => i < j

\* With all 23 criteria unmet both systemic entries lead the list.
C5_Witness ==
    /\ Called("generate_recommendations")
    /\ Cardinality(Unmet(call.transp_indicators)) = Len(TRANSP_CRITERIA)
    /\ Cardinality(Unmet(call.inst_indicators)) = Len(INST_CRITERIA)
    /\ Len(call.ret) = 5
    /\ call.ret[1].area = "HR brand"
    /\ call.ret[2].area = "Media activity"
    /\ call.ret[3].area = "Transparency"

\* C6: calculate_i_media is within [0, 100] for every value and every
\* x_ref > 0, and calculate_manual_track_i_media is within [0, 100] for
\* every counts with n_total > 0.
C6_MediaIndexBounded ==
    /\ (Called("calculate_i_media") /\ call.x_ref > 0)
           => (0 <= call.ret /\ call.ret <= Pts(100))
    /\ (Called("calculate_manual_track_i_media") /\ call.n_total > 0)
           => (0 <= call.ret /\ call.ret <= Pts(100))

\* A value above the reference was held at 100.
C6_Witness ==
    /\ Called("calculate_i_media")
    /\ call.x_ref > 0
    /\ call.val_i > call.x_ref
    /\ call.ret = Pts(100)

\* The points of the institutional criteria that are ticked.
RawInstPoints(indicators) ==
    SumSeq([i \in 1..Len(INST_CRITERIA) |-> IF indicators[i] THEN INST_CRITERIA[i][2] ELSE 0])

\* C7: for checklists as long as their catalogs, calculate_r_transp is a
\* multiple of 10 within [0, 100] and calculate_r_inst is the smaller of
\* the raw points and 100, within [0, 100].
C7_ChecklistScores ==
    /\ Called("calculate_r_transp") =>
           /\ 0 <= call.ret /\ call.ret <= Pts(100)
           /\ \E k \in 0..10 : call.ret = Pts(10 * k)
    /\ Called("calculate_r_inst") =>
           /\ 0 <= call.ret /\ call.ret <= Pts(100)
           /\ call.ret = Pts(Min(RawInstPoints(call.indicators), 100))

\* Raw points above 100 were capped.
C7_Witness ==
    /\ Called("calculate_r_inst")
    /\ RawInstPoints(call.indicators) > 100
    /\ call.ret = Pts(100)

\* C8: in every stored calculation s_rep, m_stab and i_core are within
\* [0, 100] and neither final score is negative.
C8_ScoresInRange ==
    HasResults =>
        /\ 0 <= Res.s_rep /\ Res.s_rep <= Pts(100)
        /\ 0 <= Res.m_stab /\ Res.m_stab <= Pts(100)
        /\ 0 <= Res.i_core /\ Res.i_core <= Pts(100)
        /\ Res.iseec_b >= 0
        /\ Res.iseec_e # None => Res.iseec_e >= 0

\* Both subindices at 100 and final scores above 100.
C8_Witness ==
    /\ HasResults
    /\ Res.s_rep = Pts(100)
    /\ Res.m_stab = Pts(100)
    /\ Res.iseec_b > Pts(100)
    /\ Res.iseec_e # None
    /\ Res.iseec_e > Res.iseec_b

\* C9: no call raises, and a degenerate argument yields 0: x_ref <= 0,
\* n_total <= 0, total <= 1, costs <= 0, plan <= 0; calculate_m_stab does
\* not divide by zero on any volatility from calculate_v_vol.
C9_FailSafe ==
    /\ call.fn \in {"calculate_i_media", "calculate_manual_track_i_media",
                    "calculate_v_hr", "calculate_roi", "calculate_sroi",
                    "get_k_budget", "calculate_m_stab"} => call.ret # ERR
    /\ (Called("calculate_i_media") /\ call.x_ref <= 0) => call.ret = 0
    /\ (Called("calculate_manual_track_i_media") /\ call.n_total <= 0) => call.ret = 0
    /\ (Called("calculate_v_hr") /\ call.total <= 1) => call.ret = 0
    /\ (Called("calculate_roi") /\ call.costs <= 0) => call.ret = 0
    /\ (Called("calculate_sroi") /\ call.costs <= 0) => call.ret = 0
    /\ (Called("get_k_budget") /\ call.plan <= 0) => call.ret = 0
    /\ Called("calculate_m_stab") =>
           /\ call.v_vol = INF \/ call.v_vol >= 0
           /\ call.v_vol = INF => call.ret = 0

\* A ranking of one participant gave 0.
C9_Witness ==
    /\ Called("calculate_v_hr")
    /\ call.total = 1
    /\ call.rank = 1
    /\ call.ret = 0

\* C10: the calculation stores None for k_eff and iseec_e exactly when the
\* extended contour was not asked for; when it was, k_eff is
\* 1 + k_roi + k_sroi + k_budget and iseec_e is iseec_b * k_eff.
C10_ExtendedOptional ==
    [][ (pc = "button" /\ pc' = "done" /\ "results" \in DOMAIN session_state') =>
          LET r == session_state'.results
          IN  /\ r.k_eff = None <=> ~loc.use_extended
              /\ r.iseec_e = None <=> ~loc.use_extended
              /\ loc.use_extended =>
                    /\ r.k_eff = 100 + loc.k_roi_val + loc.k_sroi_val + loc.k_budget_val
                    /\ r.iseec_e = (r.iseec_b * r.k_eff) \div 100 ]_vars

\* A positive baseline score stored without the extended contour.
C10_Witness ==
    /\ HasResults
    /\ Res.iseec_b > 0
    /\ Res.k_eff = None
    /\ Res.iseec_e = None

C13_Monotone ==
    /\ (Called("calculate_i_media twice") /\ call.x_ref > 0 /\ call.value1 <= call.value2)
           => call.ret1 <= call.ret2
    /\ (Called("calculate_m_stab twice") /\ 0 <= call.i_media /\ call.i_media <= Pts(100)
          /\ 0 <= call.v1 /\ call.v1 <= call.v2)
           => call.ret1 >= call.ret2

\* A finite volatility kept part of a positive index and the sentinel none.
C13_Witness ==
    /\ Called("calculate_m_stab twice")
    /\ call.i_media > 0
    /\ call.v1 = SCALE
    /\ call.v2 = INF
    /\ call.ret1 > 0
    /\ call.ret2 = 0

\* The series of the last call is below the threshold of its x_ref.
BelowThreshold ==
    LET n == Len(call.monthly_values)
        S == SumSeq(call.monthly_values)
        threshold == IF call.x_ref # None /\ call.x_ref > 0
                     THEN (call.x_ref * SCALE) \div 100 ELSE SCALE
    IN  S * SCALE < threshold * n

\* C14: calculate_v_vol returns 0 for fewer than 2 observations; otherwise
\* the sentinel when the mean is below the threshold (1% of x_ref when x_ref
\* is given and positive, 1 otherwise) and the population standard
\* deviation divided by the mean when it is not; the result is the sentinel
\* or a non-negative ratio, and 0 for a constant series at or above the
\* threshold.
C14_Volatility ==
    Called("calculate_v_vol") =>
        LET xs == call.monthly_values
            n  == Len(xs)
            S  == SumSeq(xs)
            SS == SumSeq([i \in 1..n |-> (n * xs[i] - S) * (n * xs[i] - S)])
            lo == (call.ret * S) \div SCALE
            hi == ((call.ret + 1) * S) \div SCALE + 1
        IN  /\ n < 2 => call.ret = 0
            /\ (n >= 2 /\ BelowThreshold) => call.ret = INF
            /\ (n >= 2 /\ ~BelowThreshold) =>
                   /\ call.ret # INF
                   /\ call.ret >= 0
                   /\ lo * lo * n <= SS
                   /\ SS < hi * hi * n
                   /\ (\A i \in 1..n : xs[i] = xs[1]) => call.ret = 0
            /\ call.ret = INF \/ call.ret >= 0

\* Twelve uneven months above the threshold gave a positive finite ratio.
C14_Witness ==
    /\ Called("calculate_v_vol")
    /\ Len(call.monthly_values) = 12
    /\ call.x_ref = 45000
    /\ ~BelowThreshold
    /\ call.ret > 0
    /\ call.ret # INF

\* C15: calculate_m_stab returns 0 on the sentinel and i_media / (1 + v_vol)
\* otherwise; it is i_media when v_vol is 0; for i_media > 0 and a finite
\* v_vol >= 0 it is positive, so m_stab = 0 with i_media > 0 happens only
\* through the sentinel.
C15_StabilityFormula ==
    Called("calculate_m_stab") =>
        /\ call.v_vol = INF => call.ret = 0
        /\ call.v_vol # INF =>
               call.ret = MulDiv(call.i_media, SCALE, SCALE + call.v_vol)
        /\ call.v_vol = 0 => call.ret = call.i_media
        /\ (call.i_media > 0 /\ call.v_vol # INF /\ call.v_vol >= 0) => call.ret > 0
        /\ (call.ret = 0 /\ call.i_media > 0) => call.v_vol = INF

\* A volatility above one left a positive share of the index.
C15_Witness ==
    /\ Called("calculate_m_stab")
    /\ call.v_vol # INF
    /\ call.v_vol > SCALE
    /\ call.i_media = Pts(50)
    /\ call.ret > 0
    /\ call.ret < Pts(25)

\* C16: for total > 1 calculate_v_hr is (1 - (rank - 1) / (total - 1)) * 100
\* held within [0, 100]: 100 at rank 1, 0 at rank = total and beyond it,
\* and never larger for a larger rank; the two "absent from the ranking"
\* options give 0 and 50 without the formula.
C16_RankPercentile ==
    /\ (Called("calculate_v_hr") /\ call.total > 1) =>
           /\ 0 <= call.ret /\ call.ret <= Pts(100)
           /\ call.rank = 1 => call.ret = Pts(100)
           /\ call.rank >= call.total => call.ret = 0
           /\ call.rank <= call.total =>
                  /\ 100 * SCALE * (call.total - call.rank) <= call.ret * (call.total - 1)
                  /\ (call.ret - 100) * (call.total - 1) < 100 * SCALE * (call.total - call.rank)
    /\ (Called("calculate_v_hr twice") /\ call.total > 1 /\ call.rank1 <= call.rank2)
           => call.ret1 >= call.ret2
    /\ Called("v_hr_by_source") =>
           /\ call.hr_source = "absent_large" => call.ret = 0
           /\ call.hr_source = "absent_small" => call.ret = Pts(50)

\* A rank beyond the number of participants gave 0.
C16_Witness ==
    /\ Called("calculate_v_hr")
    /\ call.total > 1
    /\ call.rank > call.total
    /\ call.ret = 0

\* C17: get_k_scale returns 1.05 exactly when the head count is at least
\* 100000 or the strategic flag is set, 1.0 otherwise, and nothing else.
C17_ScaleMultiplier ==
    Called("get_k_scale") =>
        /\ call.ret = 105 <=> (call.employees >= 100000 \/ call.is_strategic)
        /\ call.ret = 100 <=> (call.employees < 100000 /\ ~call.is_strategic)
        /\ call.ret \in {100, 105}

\* Exactly 100000 employees without the flag gave 1.05.
C17_Witness ==
    /\ Called("get_k_scale")
    /\ call.employees = 100000
    /\ ~call.is_strategic
    /\ call.ret = 105

\* C18: get_k_budget returns -0.10 exactly when plan > 0, the deviation
\* (fact - plan) / plan * 100 is above 10 and no approval was recorded, and
\* 0 otherwise: at exactly 10, for any under-spend and for any approved
\* overrun.
C18_BudgetPenalty ==
    Called("get_k_budget") =>
        /\ call.ret = -10 <=> ( /\ call.plan > 0
                                /\ (call.fact - call.plan) * 100 > 10 * call.plan
                                /\ ~call.has_approval )
        /\ call.ret \in {-10, 0}

\* An overrun of exactly 10% without approval was not penalised.
C18_Witness ==
    /\ Called("get_k_budget")
    /\ call.plan = 430
    /\ call.fact = 473
    /\ ~call.has_approval
    /\ call.ret = 0

\* C19: k_roi is 0.05 for every roi > 0 and 0 otherwise, k_sroi is 0.10 for
\* every sroi > 0 and 0 otherwise, k_eff is 1 + k_roi + k_sroi + k_budget,
\* one of 0.90, 0.95, 1.00, 1.05, 1.10, 1.15, and below 1 only with the
\* budget penalty.
C19_BinaryBonuses ==
    Called("calculate_k_eff") =>
        /\ call.k_roi = (IF call.roi > 0 THEN 5 ELSE 0)
        /\ call.k_sroi = (IF call.sroi > 0 THEN 10 ELSE 0)
        /\ call.ret = 100 + call.k_roi + call.k_sroi + call.k_budget
        /\ call.ret \in {90, 95, 100, 105, 110, 115}
        /\ call.ret < 100 => call.k_budget = -10

\* The smallest positive roi earned the whole bonus next to the penalty.
C19_Witness ==
    /\ Called("calculate_k_eff")
    /\ call.roi = 1
    /\ call.sroi <= 0
    /\ call.k_budget = -10
    /\ call.ret = 95

\* The points of all institutional criteria.
InstCatalogTotal ==
    SumSeq([i \in 1..Len(INST_CRITERIA) |-> INST_CRITERIA[i][2]])

\* C20 as stated: the points of the institutional catalog total 100, so
\* calculate_r_inst returns the uncapped sum of the points of the criteria
\* met, for every checklist.
C20_CapIsNoOp ==
    Called("calculate_r_inst") =>
        /\ InstCatalogTotal = 100
        /\ call.ret = Pts(RawInstPoints(call.indicators))

\* C20 (amended): the points of the institutional catalog total 120, so
\* the cap acts: calculate_r_inst returns the uncapped sum exactly when that
\* sum is at most 100, and 100 for the checklists whose sum is above it.
C20_CapActs ==
    Called("calculate_r_inst") =>
        /\ InstCatalogTotal = 120
        /\ call.ret = Pts(RawInstPoints(call.indicators))
              <=> RawInstPoints(call.indicators) <= 100
        /\ RawInstPoints(call.indicators) > 100 => call.ret = Pts(100)

\* All thirteen criteria met: 120 raw points returned as 100.
C20_Witness ==
    /\ Called("calculate_r_inst")
    /\ \A i \in 1..Len(INST_CRITERIA) : call.indicators[i]
    /\ RawInstPoints(call.indicators) = 120
    /\ call.ret = Pts(100)

\* C21: every profile of the registry has k_risk 1.0 or 1.10 and a positive
\* x_ref, the profile "Other" exists with k_risk = 1.0, and at every point of
\* a run the k_risk and x_ref in use, and the k_risk stored with a result,
\* are those of the registry entry of the chosen industry.
C21_RegistryProfiles ==
    /\ \A n \in DOMAIN INDUSTRY_DATA :
           /\ INDUSTRY_DATA[n].k_risk \in {100, 110}
           /\ INDUSTRY_DATA[n].k_risk >= 100
           /\ INDUSTRY_DATA[n].x_ref > 0
    /\ "Other" \in DOMAIN INDUSTRY_DATA
    /\ INDUSTRY_DATA["Other"].k_risk = 100
    /\ loc.industry # NoneStr =>
           /\ loc.industry \in DOMAIN INDUSTRY_DATA
           /\ loc.k_risk \in {100, 110}
           /\ loc.default_x_ref > 0
    /\ HasResults =>
           /\ Res.industry \in DOMAIN INDUSTRY_DATA
           /\ Res.k_risk \in {100, 110}
           /\ Res.industry = "Other" => Res.k_risk = 100

\* A result was stored for the industry "Other" with k_risk = 1.0.
C21_Witness ==
    /\ HasResults
    /\ Res.industry = "Other"
    /\ Res.k_risk = 100
    /\ Res.iseec_b > 0

\* The place in its catalog of the criterion a checklist entry names.
CatalogIndex(e) ==
    IF e.area = "Transparency"
    THEN CHOOSE i \in 1..Len(TRANSP_CRITERIA) : TRANSP_CRITERIA[i] = e.action
    ELSE CHOOSE i \in 1..Len(INST_CRITERIA) : INST_CRITERIA[i][1] = e.action

\* The entries of priority 1 or 2 that the arguments of the last call give.
HighCandidates ==
    Cardinality(Unmet(call.transp_indicators))
    + Cardinality({ i \in Unmet(call.inst_indicators) : INST_CRITERIA[i][2] = 10 })
    + (IF call.v_hr < Pts(50) THEN 1 ELSE 0)
    + (IF call.m_stab < Pts(50) THEN 1 ELSE 0)

\* C22: ties are kept in the order of collection: among returned entries of
\* equal priority and potential the transparency gaps come in catalog order
\* before the 10-point institutional gaps in catalog order, the
\* employer-brand entry comes before the media entry, and a 5-point
\* institutional gap (priority 3) is returned only when fewer than 5
\* entries of priority 1 or 2 exist.
C22_StableTies ==
    Called("generate_recommendations") =>
        LET r == call.ret
        IN  /\ \A i \in 1..Len(r) : \A j \in 1..Len(r) :
                  (i < j /\ r[i].priority = r[j].priority /\ r[i].potential = r[j].potential)
                     => \/ r[i].area = "Transparency" /\ r[j].area = "Institutional maturity"
                        \/ /\ r[i].area = r[j].area
                           /\ r[i].area \in {"Transparency", "Institutional maturity"}
                           /\ CatalogIndex(r[i]) < CatalogIndex(r[j])
            /\ \A i \in FromArea("HR brand") : \A j \in FromArea("Media activity") : i < j
            /\ (\E i \in 1..Len(r) : r[i].priority = 3) => HighCandidates < 5

\* One transparency gap was returned before three 10-point institutional
\* gaps of the same priority and potential, these in catalog order.
C22_Witness ==
    /\ Called("generate_recommendations")
    /\ Len(call.ret) = 4
    /\ call.ret[1].area = "Transparency"
    /\ call.ret[2].area = "Institutional maturity"
    /\ call.ret[3].area = "Institutional maturity"
    /\ call.ret[2].potential = 10
    /\ call.ret[3].potential = 10
    /\ call.ret[1].potential = 10
    /\ call.ret[1].priority = call.ret[2].priority
    /\ CatalogIndex(call.ret[2]) < CatalogIndex(call.ret[3])
    /\ CatalogIndex(call.ret[3]) < CatalogIndex(call.ret[4])

\* C23: whenever the extended contour was asked for, the stored result has
\* rating_e = get_quality_rating(iseec_e) and both reports carry the extended
\* score, for every iseec_e, 0 included.
C23_ExtendedAlwaysRated ==
    (HasResults /\ Res.k_eff # None) =>
        /\ Res.rating_e = get_quality_rating(Res.iseec_e)[1]
        /\ generate_word_report_has_iseec_e(Res)
        /\ report_text_has_iseec_e(Res)

\* C24: determine_industry_by_okved returns, for every prefix of the list of
\* an industry, that industry, and "Other" for a code that is empty or that
\* no prefix of the registry begins.
C24_PrefixReachesIndustry ==
    Called("determine_industry_by_okved") =>
        /\ \A n \in IndustryNames :
              \A k \in 1..Len(INDUSTRY_DATA[n].okved_prefixes) :
                 call.okved = INDUSTRY_DATA[n].okved_prefixes[k] => call.ret = n
        /\ (call.okved = << >> \/ \A p \in AllPrefixes : ~startswith(call.okved, p))
              => call.ret = "Other"

\* C25: after every look-up the three auto-fill keys come from the most
\* recent successful look-up: a successful one sets the name, the industry
\* hint and the head count from the company found (no hint and no head
\* count when it has none), and a failed one leaves all three as they were.
C25_LookupConsistent ==
    [][ (call'.fn = "get_company_by_inn") =>
          LET result == call'.result
              before == AutoKeys(session_state)
              after == session_state'
          IN  IF result.error
              THEN /\ after.auto_company_name = before.auto_company_name
                   /\ after.auto_industry = before.auto_industry
                   /\ after.auto_employees = before.auto_employees
              ELSE /\ after.auto_company_name = result.name
                   /\ after.auto_industry =
                         (IF result.okved # << >>
                          THEN determine_industry_by_okved(result.okved) ELSE NoneStr)
                   /\ after.auto_employees =
                         (IF result.employees # None THEN result.employees ELSE None) ]_vars

====
